---- MODULE Spec2Model ----
(***************************************************************************)
(* Model of miniflux storage/feed.go: the feed repository over the feeds   *)
(* and entries tables.  Every public method of Storage that the claims     *)
(* talk about is one action (or, where the method issues several store     *)
(* statements that other callers can interleave with, one action per       *)
(* statement).  The store is the pair of tables (feeds, entries).          *)
(***************************************************************************)
EXTENDS Integers, Sequences, FiniteSets, TLC

\* ------------------------------------------------------------------ bounds
MaxFeeds == 3
MaxEntries == 2
NumHashes == 2
MaxCreateCalls == 2
MaxCounterFeeds == 2
MaxFeedEntries == 2

\* the rows of the users and categories tables (never written by this file)
Users == {1, 2}
FeedIDs == 1..MaxFeeds
Hashes == 1..NumHashes
Categories == {1, 2}
URLs == {"http://a", "http://b"}

\* ------------------------------------------------------------ Go-side values
\* A Go string whose case matters is a sequence of byte values.
TitleLowerA == <<97>>
TitleUpperB == <<66>>
TitleUpperC == <<67>>

\* error values returned by the methods; "nil" is Go's nil error
NilErr == "nil"
ErrNoRows == "sql: no rows in result set"
ErrDB == "db failure"
ErrCreateFeed == "store: unable to create feed"
ErrBeginTx == "store: unable to start transaction"
ErrCreateEntry == "store: unable to create entry"
ErrCommitTx == "store: unable to commit transaction"
ErrUpdateFeed == "store: unable to update feed"
ErrUpdateFeedError == "store: unable to update feed error"
ErrRemoveFeed == "store: unable to remove feed"
ErrNoFeedRemoved == "store: no feed has been removed"
ErrFetchFeed == "store: unable to fetch feed"
ErrFetchFeeds == "store: unable to fetch feeds"
ErrFetchCounts == "store: unable to fetch feed counts"

\* the nil *model.Feed and the nil *model.FeedIcon
NilFeed == [nil |-> TRUE]
NilIcon == [nil |-> TRUE]
\* a time.Time: an instant and the location it is displayed in
Time(instant, loc) == [instant |-> instant, loc |-> loc]

\* ------------------------------------------------- tables joined, never written
\* users.timezone, categories.title and feed_icons.icon_id are read through
\* LEFT JOINs only; this file never writes them.
Timezone(userID) == IF userID = 1 THEN "UTC" ELSE "Europe/Paris"
CategoryTitle(categoryID) == IF categoryID = 1 THEN "News" ELSE "Tech"
IconOf(feedID) == IF feedID = 1 THEN [FeedID |-> feedID, IconID |-> 10] ELSE NilIcon

\* lower(f.title) of the ORDER BY clause
Lower(s) == [i \in 1..Len(s) |-> IF s[i] \in 65..90 THEN s[i] + 32 ELSE s[i]]

\* byte-wise string order (ASC)
RECURSIVE StrLess(_, _)
StrLess(a, b) ==
  IF Len(b) = 0 THEN FALSE
  ELSE IF Len(a) = 0 THEN TRUE
  ELSE IF Head(a) # Head(b) THEN Head(a) < Head(b)
  ELSE StrLess(Tail(a), Tail(b))

\* timezone.Convert(tz, t): the same instant, shown in the user's location
Convert(tz, instant) == Time(instant, tz)

\* ------------------------------------------------------------------- state
VARIABLES
  feeds,       \* the feeds table: a set of rows
  entries,     \* the entries table: a set of rows
  nextFeedID,  \* the feeds id sequence (RETURNING id)
  nextEntryID, \* the entries id sequence
  cf,          \* the CreateFeed call in flight (its position and locals)
  ff,          \* the fetchFeeds-with-counters call in flight
  ret,         \* what the last completed call returned, with its arguments
  created,     \* history: the identifiers CreateFeed wrote back, in order
  removedLog   \* history: the (userID, feedID) pairs RemoveFeed returned nil for

vars == <<feeds, entries, nextFeedID, nextEntryID, cf, ff, ret, created, removedLog>>

NoRet == [op |-> "none"]
IdleCreate == [pc |-> "idle"]
IdleFetch == [pc |-> "idle"]

Init ==
  /\ feeds = {}
  /\ entries = {}
  /\ nextFeedID = 1
  /\ nextEntryID = 1
  /\ cf = IdleCreate
  /\ ff = IdleFetch
  /\ ret = NoRet
  /\ created = <<>>
  /\ removedLog = {}

\* ---------------------------------------------------------------- payloads
\* A *model.Entry handed to CreateFeed in feed.Entries.
EntryPayload(hash) ==
  [FeedID |-> 0, UserID |-> 0, Hash |-> hash, Status |-> "unread", Date |-> 0]

\* A *model.Feed handed to CreateFeed / UpdateFeed / UpdateFeedError.  alt
\* switches every configuration field to its other value.
Payload(userID, feedURL, title, categoryID, alt) ==
  [ID |-> 0,
   UserID |-> userID,
   FeedURL |-> feedURL,
   SiteURL |-> IF alt THEN "http://site2" ELSE "http://site1",
   Title |-> title,
   CheckedAt |-> Time(0, "UTC"),
   NextCheckAt |-> Time(0, "UTC"),
   EtagHeader |-> IF alt THEN "etag2" ELSE "",
   LastModifiedHeader |-> IF alt THEN "lm2" ELSE "",
   ParsingErrorMsg |-> "",
   ParsingErrorCount |-> 0,
   ScraperRules |-> IF alt THEN "scraper2" ELSE "",
   RewriteRules |-> IF alt THEN "rewrite2" ELSE "",
   Crawler |-> alt,
   UserAgent |-> IF alt THEN "agent2" ELSE "",
   Username |-> IF alt THEN "user2" ELSE "",
   Password |-> IF alt THEN "secret2" ELSE "",
   Disabled |-> alt,
   IgnoreHTTPCache |-> alt,
   FetchViaProxy |-> alt,
   Category |-> [ID |-> categoryID, Title |-> "", UserID |-> userID],
   Icon |-> NilIcon,
   Entries |-> <<>>,
   ReadCount |-> 0,
   UnreadCount |-> 0]

\* the feeds callers create in the feed-table specification (no entries)
FeedPayloads ==
  { Payload(1, "http://a", TitleLowerA, 1, FALSE),
    Payload(1, "http://a", TitleUpperB, 2, TRUE),
    Payload(2, "http://a", TitleLowerA, 1, FALSE) }

\* the feeds callers create with entries attached: every list of up to
\* MaxEntries entries over the hashes, repeated hashes included
CreatePayloads ==
  { [Payload(1, "http://a", TitleLowerA, 1, FALSE) EXCEPT
       !.Entries = [i \in DOMAIN hs |-> EntryPayload(hs[i])]]
    : hs \in UNION {[1..k -> Hashes] : k \in 1..MaxEntries} }

\* the feeds callers create in the counter specification: for either user,
\* with up to MaxFeedEntries distinct entries
CounterPayloads ==
  { [Payload(u, "http://a", TitleLowerA, 1, FALSE) EXCEPT
       !.Entries = [i \in 1..k |-> EntryPayload(i)]]
    : u \in Users, k \in 0..MaxFeedEntries }

\* entries.status: read and unread, and one of the statuses the counters skip
Statuses == {"unread", "read", "removed"}

\* the feeds the refresh pipeline hands to UpdateFeed, for any (ID, UserID)
UpdatePayloads ==
  { [Payload(u, "http://b", TitleUpperC, 2, TRUE) EXCEPT
       !.ID = f, !.ParsingErrorCount = 1, !.ParsingErrorMsg = "fetch error",
       !.CheckedAt = Time(1, "UTC"), !.NextCheckAt = Time(2, "UTC")]
    : u \in Users, f \in FeedIDs }

\* the feeds the refresh pipeline hands to UpdateFeedError
ErrorPayloads ==
  { [Payload(u, "http://zz", TitleUpperC, 2, TRUE) EXCEPT
       !.ID = f, !.ParsingErrorCount = 1, !.ParsingErrorMsg = "fetch error",
       !.CheckedAt = Time(1, "UTC"), !.NextCheckAt = Time(2, "UTC")]
    : u \in Users, f \in FeedIDs }

\* ------------------------------------------------------------- feeds rows
\* The row CreateFeed's INSERT stores.  The statement names fifteen columns;
\* id comes from the sequence and the columns it does not name (checked_at,
\* next_check_at, parsing_error_count, parsing_error_msg, ignore_http_cache)
\* take the table's defaults, whatever the payload carries in those fields.
InsertedFeedRow(feed, id) ==
  [id |-> id,
   feed_url |-> feed.FeedURL,
   site_url |-> feed.SiteURL,
   title |-> feed.Title,
   category_id |-> feed.Category.ID,
   user_id |-> feed.UserID,
   etag_header |-> feed.EtagHeader,
   last_modified_header |-> feed.LastModifiedHeader,
   crawler |-> feed.Crawler,
   user_agent |-> feed.UserAgent,
   username |-> feed.Username,
   password |-> feed.Password,
   disabled |-> feed.Disabled,
   scraper_rules |-> feed.ScraperRules,
   rewrite_rules |-> feed.RewriteRules,
   fetch_via_proxy |-> feed.FetchViaProxy,
   checked_at |-> 0,
   next_check_at |-> 0,
   parsing_error_count |-> 0,
   parsing_error_msg |-> "",
   ignore_http_cache |-> FALSE]

\* UpdateFeed's SET list: nineteen columns, neither id nor user_id
UpdatedFeedRow(row, feed) ==
  [row EXCEPT
     !.feed_url = feed.FeedURL,
     !.site_url = feed.SiteURL,
     !.title = feed.Title,
     !.category_id = feed.Category.ID,
     !.etag_header = feed.EtagHeader,
     !.last_modified_header = feed.LastModifiedHeader,
     !.checked_at = feed.CheckedAt.instant,
     !.parsing_error_msg = feed.ParsingErrorMsg,
     !.parsing_error_count = feed.ParsingErrorCount,
     !.scraper_rules = feed.ScraperRules,
     !.rewrite_rules = feed.RewriteRules,
     !.crawler = feed.Crawler,
     !.user_agent = feed.UserAgent,
     !.username = feed.Username,
     !.password = feed.Password,
     !.disabled = feed.Disabled,
     !.next_check_at = feed.NextCheckAt.instant,
     !.ignore_http_cache = feed.IgnoreHTTPCache,
     !.fetch_via_proxy = feed.FetchViaProxy]

UpdatedFeedErrorRow_Wide(row, feed) ==
  [row EXCEPT
     !.parsing_error_msg = feed.ParsingErrorMsg,
     !.parsing_error_count = feed.ParsingErrorCount,
     !.checked_at = feed.CheckedAt.instant,
     !.next_check_at = feed.NextCheckAt.instant,
     !.title = feed.Title,
     !.disabled = feed.Disabled]

\* UpdateFeedError's SET list: four columns
UpdatedFeedErrorRow(row, feed) ==
  [row EXCEPT
     !.parsing_error_msg = feed.ParsingErrorMsg,
     !.parsing_error_count = feed.ParsingErrorCount,
     !.checked_at = feed.CheckedAt.instant,
     !.next_check_at = feed.NextCheckAt.instant]

\* rows.Scan / QueryRow().Scan of the 23 selected columns into a model.Feed,
\* with the icon and the timezone conversion that follow the scan.
\* categoryUserID is what ends up in feed.Category.UserID.
ScanFeedRow(row, categoryUserID) ==
  [ID |-> row.id,
   UserID |-> row.user_id,
   FeedURL |-> row.feed_url,
   SiteURL |-> row.site_url,
   Title |-> row.title,
   CheckedAt |-> Convert(Timezone(row.user_id), row.checked_at),
   NextCheckAt |-> Time(0, "UTC"),
   EtagHeader |-> row.etag_header,
   LastModifiedHeader |-> row.last_modified_header,
   ParsingErrorMsg |-> row.parsing_error_msg,
   ParsingErrorCount |-> row.parsing_error_count,
   ScraperRules |-> row.scraper_rules,
   RewriteRules |-> row.rewrite_rules,
   Crawler |-> row.crawler,
   UserAgent |-> row.user_agent,
   Username |-> row.username,
   Password |-> row.password,
   Disabled |-> row.disabled,
   IgnoreHTTPCache |-> row.ignore_http_cache,
   FetchViaProxy |-> row.fetch_via_proxy,
   Category |-> [ID |-> row.category_id,
                 Title |-> CategoryTitle(row.category_id),
                 UserID |-> categoryUserID],
   Icon |-> IconOf(row.id),
   Entries |-> <<>>,
   ReadCount |-> 0,
   UnreadCount |-> 0]

\* ------------------------------------------------------------ the queries
\* SELECT true FROM feeds WHERE user_id=$1 AND id=$2; a failed query or scan
\* leaves result at its zero value
FeedExists(userID, feedID, dbFails) ==
  /\ ~dbFails
  /\ \E r \in feeds : r.user_id = userID /\ r.id = feedID

\* SELECT true FROM feeds WHERE user_id=$1 AND feed_url=$2
FeedURLExists(userID, feedURL, dbFails) ==
  /\ ~dbFails
  /\ \E r \in feeds : r.user_id = userID /\ r.feed_url = feedURL

AnotherFeedURLExists_NoExclusion(userID, feedID, feedURL, dbFails) ==
  /\ ~dbFails
  /\ \E r \in feeds : r.user_id = userID /\ r.feed_url = feedURL

\* SELECT true FROM feeds WHERE id <> $1 AND user_id=$2 AND feed_url=$3
AnotherFeedURLExists(userID, feedID, feedURL, dbFails) ==
  /\ ~dbFails
  /\ \E r \in feeds : r.id # feedID /\ r.user_id = userID /\ r.feed_url = feedURL

FeedByID_AnyOwner(userID, feedID, dbFails) ==
  LET rows == {r \in feeds : r.id = feedID}
      err == IF dbFails THEN ErrDB ELSE IF rows = {} THEN ErrNoRows ELSE NilErr
  IN  IF err = ErrNoRows THEN [feed |-> NilFeed, err |-> NilErr]
      ELSE IF err # NilErr THEN [feed |-> NilFeed, err |-> ErrFetchFeed]
      ELSE [feed |-> ScanFeedRow(CHOOSE r \in rows : TRUE, userID), err |-> NilErr]

FeedByID_ErrorAsAbsent(userID, feedID, dbFails) ==
  LET rows == {r \in feeds : r.user_id = userID /\ r.id = feedID}
  IN  IF dbFails \/ rows = {} THEN [feed |-> NilFeed, err |-> NilErr]
      ELSE [feed |-> ScanFeedRow(CHOOSE r \in rows : TRUE, userID), err |-> NilErr]

\* FeedByID: the pair (feed, err) it returns.  QueryRow().Scan() yields
\* sql.ErrNoRows when the WHERE clause (f.user_id=$1 AND f.id=$2) matches no
\* row; the switch turns that into (nil, nil) and any other error into an error.
FeedByID(userID, feedID, dbFails) ==
  LET rows == {r \in feeds : r.user_id = userID /\ r.id = feedID}
      err == IF dbFails THEN ErrDB ELSE IF rows = {} THEN ErrNoRows ELSE NilErr
  IN  IF err = ErrNoRows THEN [feed |-> NilFeed, err |-> NilErr]
      ELSE IF err # NilErr THEN [feed |-> NilFeed, err |-> ErrFetchFeed]
      ELSE [feed |-> ScanFeedRow(CHOOSE r \in rows : TRUE, userID), err |-> NilErr]

OrderedBefore_RawTitle(a, b) ==
  \/ a.parsing_error_count > b.parsing_error_count
  \/ /\ a.parsing_error_count = b.parsing_error_count
     /\ StrLess(a.title, b.title)

\* ORDER BY f.parsing_error_count DESC, lower(f.title) ASC: row a sorts
\* strictly before row b
OrderedBefore(a, b) ==
  \/ a.parsing_error_count > b.parsing_error_count
  \/ /\ a.parsing_error_count = b.parsing_error_count
     /\ StrLess(Lower(a.title), Lower(b.title))

\* every order in which the store may return the rows of a set under the
\* ORDER BY clause (rows with equal sort keys come in any order)
Ordered(rows) ==
  LET n == Cardinality(rows)
  IN  { s \in [1..n -> rows] :
          /\ \A i, j \in 1..n : i # j => s[i] # s[j]
          /\ \A i, j \in 1..n : i < j => ~OrderedBefore(s[j], s[i]) }

\* feedListQuery: WHERE f.user_id=$1
FeedListQuery(userID) == Ordered({r \in feeds : r.user_id = userID})

\* a Go map that was never filled
EmptyMap == [k \in {} |-> 0]

\* the row loop with both lookups made in readCounters
FetchFeedsRows_ReadTwice(rows, withCounters, readCounters, unreadCounters) ==
  [i \in 1..Len(rows) |->
     LET feed == ScanFeedRow(rows[i], rows[i].user_id)
     IN  IF withCounters
         THEN [feed EXCEPT
                 !.ReadCount = IF feed.ID \in DOMAIN readCounters
                               THEN readCounters[feed.ID] ELSE 0,
                 !.UnreadCount = IF feed.ID \in DOMAIN readCounters
                                 THEN readCounters[feed.ID] ELSE 0]
         ELSE feed]

\* the row loop of fetchFeeds: scan, then the counter lookups (a map miss
\* leaves the field at zero)
FetchFeedsRows(rows, withCounters, readCounters, unreadCounters) ==
  [i \in 1..Len(rows) |->
     LET feed == ScanFeedRow(rows[i], rows[i].user_id)
     IN  IF withCounters
         THEN [feed EXCEPT
                 !.ReadCount = IF feed.ID \in DOMAIN readCounters
                               THEN readCounters[feed.ID] ELSE 0,
                 !.UnreadCount = IF feed.ID \in DOMAIN unreadCounters
                                 THEN unreadCounters[feed.ID] ELSE 0]
         ELSE feed]

\* a write by another caller while a fetchFeeds call sits between its two
\* queries
MarkWrite(f) == IF f.pc = "idle" THEN f ELSE [f EXCEPT !.dirty = TRUE]

\* ------------------------------------------------------------ entries rows
\* entryExists(tx, entry): the existence predicate CreateFeed calls inside
\* the entry's transaction.  It returns a bool only: a failed query leaves
\* the result false.
entryExists(entry, dbFails) ==
  /\ ~dbFails
  /\ \E e \in entries :
       e.user_id = entry.UserID /\ e.feed_id = entry.FeedID /\ e.hash = entry.Hash

\* createEntry(tx, entry): the row it inserts; a new entry is unread
createEntry(entry, id) ==
  [id |-> id,
   feed_id |-> entry.FeedID,
   user_id |-> entry.UserID,
   hash |-> entry.Hash,
   status |-> "unread",
   published_at |-> entry.Date]

\* The store's transactions: a statement that fails inside a transaction
\* aborts it, and every later statement of an aborted transaction fails
\* until the rollback.
TxAfterStatement(tx, failed) == IF failed THEN "aborted" ELSE tx
StatementFails(tx, dbFails) == dbFails \/ tx = "aborted"

NeedsInsert_Always(exists) == TRUE

\* line 494: if !s.entryExists(...)
NeedsInsert(exists) == ~exists

Rollback_Missing(tx) == tx

\* line 496: tx.Rollback()
Rollback(tx) == "rolledback"

CommitTx_RolledBack(pending) == entries

\* line 501: tx.Commit() makes the transaction's writes part of the table
CommitTx(pending) == entries \cup pending

\* ------------------------------------------------------------- CreateFeed
\* CreateFeed returns err: the call leaves the stack and ret records the
\* payload (with the identifier written back), the error, the iteration it
\* stopped in (0 outside the loop), the state its last transaction was left
\* in, the iterations whose insert was committed, the iteration a store
\* failure was injected in (0 if none) and whether the INSERT of the feed row
\* was made to fail.
CreateFeedReturn(feed, err, failedAt, tx, inserted, faultAt, insertFails) ==
  /\ cf' = IdleCreate
  /\ ret' = [op |-> "CreateFeed", feed |-> feed, err |-> err, failedAt |-> failedAt,
             tx |-> tx, inserted |-> inserted, faultAt |-> faultAt,
             dbFails |-> insertFails \/ faultAt # 0]

\* lines 463-483 (and the loop test when feed.Entries is empty): the INSERT
\* ... RETURNING id, Scan(&feed.ID)
CreateFeed(feed, dbFails) ==
  /\ cf.pc = "idle"
  /\ nextFeedID <= MaxFeeds
  /\ IF dbFails
     THEN /\ CreateFeedReturn(feed, ErrCreateFeed, 0, "none", {}, 0, TRUE)
          /\ UNCHANGED <<feeds, nextFeedID, created, ff>>
     ELSE LET stored == [feed EXCEPT !.ID = nextFeedID]
          IN  /\ feeds' = feeds \cup {InsertedFeedRow(feed, nextFeedID)}
              /\ nextFeedID' = nextFeedID + 1
              /\ created' = Append(created, nextFeedID)
              /\ ff' = MarkWrite(ff)
              /\ IF Len(feed.Entries) = 0
                 THEN CreateFeedReturn(stored, NilErr, 0, "none", {}, 0, FALSE)
                 ELSE /\ cf' = [pc |-> "begin", feed |-> stored, i |-> 1, tx |-> "none",
                                pending |-> {}, inserted |-> {}, faultAt |-> 0]
                      /\ ret' = NoRet
  /\ UNCHANGED <<entries, nextEntryID, removedLog>>

\* lines 486-492: feed.Entries[i].FeedID / UserID, then s.db.Begin()
CreateFeedBegin(dbFails) ==
  /\ cf.pc = "begin"
  /\ LET feed == [cf.feed EXCEPT !.Entries[cf.i].FeedID = cf.feed.ID,
                                 !.Entries[cf.i].UserID = cf.feed.UserID]
     IN  IF dbFails
         THEN CreateFeedReturn(feed, ErrBeginTx, cf.i, "none", cf.inserted, cf.i, FALSE)
         ELSE /\ cf' = [cf EXCEPT !.feed = feed, !.pc = "exists", !.tx = "open",
                                  !.pending = {}]
              /\ ret' = NoRet
  /\ UNCHANGED <<feeds, entries, nextFeedID, nextEntryID, ff, created, removedLog>>

\* line 494: s.entryExists(tx, feed.Entries[i]).  A statement that fails
\* inside a transaction aborts the transaction: every later statement of it
\* fails until the rollback.
CreateFeedEntryExists(dbFails) ==
  /\ cf.pc = "exists"
  /\ LET exists == entryExists(cf.feed.Entries[cf.i], dbFails)
     IN  cf' = [cf EXCEPT !.pc = IF NeedsInsert(exists) THEN "create" ELSE "commit",
                          !.tx = TxAfterStatement(cf.tx, dbFails),
                          !.faultAt = IF dbFails THEN cf.i ELSE 0]
  /\ ret' = NoRet
  /\ UNCHANGED <<feeds, entries, nextFeedID, nextEntryID, ff, created, removedLog>>

\* lines 495-498: s.createEntry(tx, feed.Entries[i]); on error tx.Rollback()
\* and return.  The insert fails when the store fails, when the transaction
\* is aborted, or when the feed row is gone (entries.feed_id is a foreign key).
CreateFeedCreateEntry(dbFails) ==
  /\ cf.pc = "create"
  /\ LET fails == \/ StatementFails(cf.tx, dbFails)
                  \/ ~\E r \in feeds : r.id = cf.feed.ID
     IN  IF fails
         THEN /\ CreateFeedReturn(cf.feed, ErrCreateEntry, cf.i, Rollback(cf.tx),
                                  cf.inserted, cf.i, FALSE)
              /\ UNCHANGED nextEntryID
         ELSE /\ cf' = [cf EXCEPT
                          !.pc = "commit",
                          !.pending = {createEntry(cf.feed.Entries[cf.i], nextEntryID)}]
              /\ nextEntryID' = nextEntryID + 1
              /\ ret' = NoRet
  /\ UNCHANGED <<feeds, entries, nextFeedID, ff, created, removedLog>>

\* lines 501-504: tx.Commit().  A Commit that returns an error has ended the
\* transaction without applying it.
CreateFeedCommit(dbFails) ==
  /\ cf.pc = "commit"
  /\ IF dbFails
     THEN /\ CreateFeedReturn(cf.feed, ErrCommitTx, cf.i, "commitfailed",
                              cf.inserted, cf.i, FALSE)
          /\ UNCHANGED <<entries, ff>>
     ELSE LET inserted == IF cf.pending = {} THEN cf.inserted
                          ELSE cf.inserted \cup {cf.i}
          IN  /\ entries' = CommitTx(cf.pending)
              /\ ff' = MarkWrite(ff)
              /\ IF cf.i + 1 > Len(cf.feed.Entries)
                 THEN CreateFeedReturn(cf.feed, NilErr, 0, "committed", inserted, 0, FALSE)
                 ELSE /\ cf' = [cf EXCEPT !.pc = "begin", !.i = cf.i + 1,
                                          !.tx = "committed", !.pending = {},
                                          !.inserted = inserted]
                      /\ ret' = NoRet
  /\ UNCHANGED <<feeds, nextFeedID, nextEntryID, created, removedLog>>

\* ------------------------------------------------- UpdateFeed, UpdateFeedError
UpdateFeed_AnyOwner(feed, dbFails) ==
  /\ IF dbFails
     THEN /\ ret' = [op |-> "UpdateFeed", feed |-> feed, dbFails |-> dbFails,
                     err |-> ErrUpdateFeed]
          /\ UNCHANGED <<feeds, ff>>
     ELSE /\ feeds' = { IF r.id = feed.ID THEN UpdatedFeedRow(r, feed) ELSE r : r \in feeds }
          /\ ff' = MarkWrite(ff)
          /\ ret' = [op |-> "UpdateFeed", feed |-> feed, dbFails |-> dbFails,
                     err |-> NilErr]
  /\ UNCHANGED <<entries, nextFeedID, nextEntryID, cf, created, removedLog>>

\* UPDATE feeds SET ... WHERE id=$20 AND user_id=$21; the number of rows
\* matched is not looked at
UpdateFeed(feed, dbFails) ==
  /\ IF dbFails
     THEN /\ ret' = [op |-> "UpdateFeed", feed |-> feed, dbFails |-> dbFails,
                     err |-> ErrUpdateFeed]
          /\ UNCHANGED <<feeds, ff>>
     ELSE /\ feeds' = { IF r.id = feed.ID /\ r.user_id = feed.UserID
                        THEN UpdatedFeedRow(r, feed) ELSE r : r \in feeds }
          /\ ff' = MarkWrite(ff)
          /\ ret' = [op |-> "UpdateFeed", feed |-> feed, dbFails |-> dbFails,
                     err |-> NilErr]
  /\ UNCHANGED <<entries, nextFeedID, nextEntryID, cf, created, removedLog>>

\* UpdateFeedError that looks at the rows affected the way RemoveFeed does
UpdateFeedError_ChecksRowsAffected(feed, dbFails) ==
  /\ IF dbFails
     THEN /\ ret' = [op |-> "UpdateFeedError", feed |-> feed, dbFails |-> dbFails,
                     err |-> ErrUpdateFeedError]
          /\ UNCHANGED <<feeds, ff>>
     ELSE /\ feeds' = { IF r.id = feed.ID /\ r.user_id = feed.UserID
                        THEN UpdatedFeedErrorRow(r, feed) ELSE r : r \in feeds }
          /\ ff' = MarkWrite(ff)
          /\ ret' = [op |-> "UpdateFeedError", feed |-> feed, dbFails |-> dbFails,
                     err |-> IF \E r \in feeds : r.id = feed.ID /\ r.user_id = feed.UserID
                             THEN NilErr ELSE ErrUpdateFeedError]
  /\ UNCHANGED <<entries, nextFeedID, nextEntryID, cf, created, removedLog>>

\* UPDATE feeds SET parsing_error_msg, parsing_error_count, checked_at,
\* next_check_at WHERE id=$5 AND user_id=$6
UpdateFeedError(feed, dbFails) ==
  /\ IF dbFails
     THEN /\ ret' = [op |-> "UpdateFeedError", feed |-> feed, dbFails |-> dbFails,
                     err |-> ErrUpdateFeedError]
          /\ UNCHANGED <<feeds, ff>>
     ELSE /\ feeds' = { IF r.id = feed.ID /\ r.user_id = feed.UserID
                        THEN UpdatedFeedErrorRow(r, feed) ELSE r : r \in feeds }
          /\ ff' = MarkWrite(ff)
          /\ ret' = [op |-> "UpdateFeedError", feed |-> feed, dbFails |-> dbFails,
                     err |-> NilErr]
  /\ UNCHANGED <<entries, nextFeedID, nextEntryID, cf, created, removedLog>>

\* -------------------------------------------------------------- RemoveFeed
RemoveFeedMatched_AnyOwner(userID, feedID) == {r \in feeds : r.id = feedID}

\* the rows DELETE FROM feeds WHERE id = $1 AND user_id = $2 deletes
RemoveFeedMatched(userID, feedID) ==
  {r \in feeds : r.id = feedID /\ r.user_id = userID}

RemoveFeedErr_Idempotent(count, fault) ==
  IF fault # "none" THEN ErrRemoveFeed ELSE NilErr

\* the error RemoveFeed returns: a failed Exec or RowsAffected, else the
\* zero-rows error, else nil
RemoveFeedErr(count, fault) ==
  IF fault # "none" THEN ErrRemoveFeed
  ELSE IF count = 0 THEN ErrNoFeedRemoved
  ELSE NilErr

\* s.db.Exec(DELETE ...), then result.RowsAffected().  fault says which of
\* the two calls fails, if any.  The entries of a deleted feed go with it
\* (entries.feed_id is a foreign key of the store).
RemoveFeed(userID, feedID, fault) ==
  LET matched == IF fault = "exec" THEN {} ELSE RemoveFeedMatched(userID, feedID)
      err == RemoveFeedErr(Cardinality(matched), fault)
  IN  /\ feeds' = feeds \ matched
      /\ entries' = {e \in entries : \A r \in matched : e.feed_id # r.id}
      /\ ff' = IF matched = {} THEN ff ELSE MarkWrite(ff)
      /\ removedLog' = IF err = NilErr THEN removedLog \cup {<<userID, feedID>>}
                       ELSE removedLog
      /\ ret' = [op |-> "RemoveFeed", userID |-> userID, feedID |-> feedID,
                 err |-> err, fault |-> fault, dbFails |-> fault # "none"]
      /\ UNCHANGED <<nextFeedID, nextEntryID, cf, created>>

\* ------------------------------------------------------- the read-only calls
ReadOnly == UNCHANGED <<feeds, entries, nextFeedID, nextEntryID, cf, ff, created, removedLog>>

CallFeedExists(userID, feedID, dbFails) ==
  /\ ret' = [op |-> "FeedExists", userID |-> userID, feedID |-> feedID,
             dbFails |-> dbFails, result |-> FeedExists(userID, feedID, dbFails)]
  /\ ReadOnly

CallFeedURLExists(userID, feedURL, dbFails) ==
  /\ ret' = [op |-> "FeedURLExists", userID |-> userID, feedURL |-> feedURL,
             dbFails |-> dbFails, result |-> FeedURLExists(userID, feedURL, dbFails)]
  /\ ReadOnly

CallAnotherFeedURLExists(userID, feedID, feedURL, dbFails) ==
  /\ ret' = [op |-> "AnotherFeedURLExists", userID |-> userID, feedID |-> feedID,
             feedURL |-> feedURL, dbFails |-> dbFails,
             result |-> AnotherFeedURLExists(userID, feedID, feedURL, dbFails)]
  /\ ReadOnly

CallFeedByID(userID, feedID, dbFails) ==
  /\ LET r == FeedByID(userID, feedID, dbFails)
     IN  ret' = [op |-> "FeedByID", userID |-> userID, feedID |-> feedID,
                 dbFails |-> dbFails, feed |-> r.feed, err |-> r.err]
  /\ ReadOnly

\* Feeds(userID): fetchFeeds(feedListQuery, "", userID), a single query
Feeds(userID, dbFails) ==
  /\ IF dbFails
     THEN ret' = [op |-> "Feeds", userID |-> userID, dbFails |-> dbFails,
                  feeds |-> <<>>, err |-> ErrFetchFeeds]
     ELSE \E rows \in FeedListQuery(userID) :
            ret' = [op |-> "Feeds", userID |-> userID, dbFails |-> dbFails,
                    feeds |-> FetchFeedsRows(rows, FALSE, EmptyMap, EmptyMap),
                    err |-> NilErr]
  /\ ReadOnly

\* ------------------------------------------- fetchFeeds with a counter query
\* FeedsWithCounters' counterQuery: SELECT feed_id, status, count(*) FROM
\* entries WHERE user_id=$1 AND status IN ('read', 'unread') GROUP BY feed_id,
\* status
CounterQuery(userID) ==
  LET sel == {e \in entries : e.user_id = userID /\ e.status \in {"read", "unread"}}
  IN  { [feed_id |-> g[1], status |-> g[2],
         count |-> Cardinality({e \in sel : e.feed_id = g[1] /\ e.status = g[2]})]
        : g \in {<<e.feed_id, e.status>> : e \in sel} }

fetchFeedCounter_Swapped(rows) ==
  LET of(status) ==
        [f \in {r.feed_id : r \in {q \in rows : q.status = status}} |->
           (CHOOSE r \in rows : r.feed_id = f /\ r.status = status).count]
  IN  <<of("unread"), of("read")>>

\* fetchFeedCounter: the two maps its row loop fills, in the order of its
\* return statement (return readCounters, unreadCounters, nil)
fetchFeedCounter(rows) ==
  LET of(status) ==
        [f \in {r.feed_id : r \in {q \in rows : q.status = status}} |->
           (CHOOSE r \in rows : r.feed_id = f /\ r.status = status).count]
  IN  <<of("read"), of("unread")>>

\* lines 259-265: fetchFeeds runs the counter query and keeps the two maps
\* (readCounters, unreadCounters, err = s.fetchFeedCounter(...))
FetchFeedsCounterQuery(userID, dbFails) ==
  /\ ff.pc = "idle"
  /\ IF dbFails
     THEN /\ ff' = IdleFetch
          /\ ret' = [op |-> "FeedsWithCounters", userID |-> userID, feeds |-> <<>>,
                     err |-> ErrFetchCounts, dirty |-> FALSE, dbFails |-> TRUE]
     ELSE LET maps == fetchFeedCounter(CounterQuery(userID))
          IN  /\ ff' = [pc |-> "rows", userID |-> userID, readCounters |-> maps[1],
                        unreadCounters |-> maps[2], dirty |-> FALSE]
              /\ ret' = NoRet
  /\ UNCHANGED <<feeds, entries, nextFeedID, nextEntryID, cf, created, removedLog>>

\* fetchFeeds with its two queries in the other order: the counters are read
\* when the rows are merged
FetchFeedsFeedQuery_CountersLast(dbFails) ==
  /\ ff.pc = "rows"
  /\ ff' = IdleFetch
  /\ IF dbFails
     THEN ret' = [op |-> "FeedsWithCounters", userID |-> ff.userID, feeds |-> <<>>,
                  err |-> ErrFetchFeeds, dirty |-> ff.dirty, dbFails |-> TRUE]
     ELSE \E rows \in FeedListQuery(ff.userID) :
            LET maps == fetchFeedCounter(CounterQuery(ff.userID))
            IN  ret' = [op |-> "FeedsWithCounters", userID |-> ff.userID,
                        feeds |-> FetchFeedsRows(rows, TRUE, maps[1], maps[2]),
                        err |-> NilErr, dirty |-> ff.dirty, dbFails |-> FALSE]
  /\ UNCHANGED <<feeds, entries, nextFeedID, nextEntryID, cf, created, removedLog>>

\* lines 267-329: the feed query and the row loop that merges the counters.
\* ret.dirty says whether another caller wrote between the two queries.
FetchFeedsFeedQuery(dbFails) ==
  /\ ff.pc = "rows"
  /\ ff' = IdleFetch
  /\ IF dbFails
     THEN ret' = [op |-> "FeedsWithCounters", userID |-> ff.userID, feeds |-> <<>>,
                  err |-> ErrFetchFeeds, dirty |-> ff.dirty, dbFails |-> TRUE]
     ELSE \E rows \in FeedListQuery(ff.userID) :
            ret' = [op |-> "FeedsWithCounters", userID |-> ff.userID,
                    feeds |-> FetchFeedsRows(rows, TRUE, ff.readCounters,
                                             ff.unreadCounters),
                    err |-> NilErr, dirty |-> ff.dirty, dbFails |-> FALSE]
  /\ UNCHANGED <<feeds, entries, nextFeedID, nextEntryID, cf, created, removedLog>>

\* another part of the store layer changes the status of an entry
SetEntryStatus(id, status) ==
  /\ \E e \in entries : e.id = id /\ e.status # status
  /\ entries' = { IF e.id = id THEN [e EXCEPT !.status = status] ELSE e : e \in entries }
  /\ ff' = MarkWrite(ff)
  /\ ret' = NoRet
  /\ UNCHANGED <<feeds, nextFeedID, nextEntryID, cf, created, removedLog>>

\* -------------------------------------------------------- specifications
\* Spec: callers create (without entries), update and remove feeds and look
\* them up by identifier; every store call may fail.
Next ==
  \/ \E feed \in FeedPayloads, dbFails \in BOOLEAN : CreateFeed(feed, dbFails)
  \/ \E feed \in UpdatePayloads, dbFails \in BOOLEAN : UpdateFeed(feed, dbFails)
  \/ \E u \in Users, f \in FeedIDs, fault \in {"none", "exec", "rowsAffected"} :
       RemoveFeed(u, f, fault)
  \/ \E u \in Users, f \in FeedIDs, dbFails \in BOOLEAN : CallFeedByID(u, f, dbFails)

Spec == Init /\ [][Next]_vars

\* SpecList: creates, both updates and removes, and the listing
NextList ==
  \/ \E feed \in FeedPayloads : CreateFeed(feed, FALSE)
  \/ \E feed \in UpdatePayloads : UpdateFeed(feed, FALSE)
  \/ \E feed \in ErrorPayloads : UpdateFeedError(feed, FALSE)
  \/ \E u \in Users, f \in FeedIDs : RemoveFeed(u, f, "none")
  \/ \E u \in Users, dbFails \in BOOLEAN : Feeds(u, dbFails)

SpecList == Init /\ [][NextList]_vars

\* SpecURL: creates, updates (which change a feed's URL) and removes, and the
\* two duplicate-detection predicates
NextURL ==
  \/ \E feed \in FeedPayloads : CreateFeed(feed, FALSE)
  \/ \E feed \in UpdatePayloads : UpdateFeed(feed, FALSE)
  \/ \E u \in Users, f \in FeedIDs : RemoveFeed(u, f, "none")
  \/ \E u \in Users, x \in URLs, dbFails \in BOOLEAN : CallFeedURLExists(u, x, dbFails)
  \/ \E u \in Users, f \in FeedIDs, x \in URLs, dbFails \in BOOLEAN :
       CallAnotherFeedURLExists(u, f, x, dbFails)
  \/ \E u \in Users, f \in FeedIDs, dbFails \in BOOLEAN : CallFeedExists(u, f, dbFails)

SpecURL == Init /\ [][NextURL]_vars

\* SpecCreate: CreateFeed calls with entries attached, one store statement
\* at a time, each of which may fail
NextCreate ==
  \/ /\ nextFeedID <= MaxCreateCalls
     /\ \E feed \in CreatePayloads, dbFails \in BOOLEAN : CreateFeed(feed, dbFails)
  \/ \E dbFails \in BOOLEAN : CreateFeedBegin(dbFails)
  \/ \E dbFails \in BOOLEAN : CreateFeedEntryExists(dbFails)
  \/ \E dbFails \in BOOLEAN : CreateFeedCreateEntry(dbFails)
  \/ \E dbFails \in BOOLEAN : CreateFeedCommit(dbFails)

SpecCreate == Init /\ [][NextCreate]_vars

\* SpecCounters: feeds are created with entries, entries change status, and
\* callers list feeds with counters; the listing's two queries are separate
\* steps that the writers interleave with
NextCounters ==
  \/ /\ nextFeedID <= MaxCounterFeeds
     /\ \E feed \in CounterPayloads : CreateFeed(feed, FALSE)
  \/ CreateFeedBegin(FALSE)
  \/ CreateFeedEntryExists(FALSE)
  \/ CreateFeedCreateEntry(FALSE)
  \/ CreateFeedCommit(FALSE)
  \/ \E e \in entries, status \in Statuses : SetEntryStatus(e.id, status)
  \/ \E u \in Users, dbFails \in BOOLEAN : FetchFeedsCounterQuery(u, dbFails)
  \/ \E dbFails \in BOOLEAN : FetchFeedsFeedQuery(dbFails)

SpecCounters == Init /\ [][NextCounters]_vars

\* ------------------------------------------------------------------ claims
\* C5: RemoveFeed(userID, feedID) on a feed that exists but belongs to
\* another user returns the "no feed has been removed" error (the only other
\* outcome being a failed store call, which is an error too) and leaves every
\* feed row as it was.
C5_RemoveOtherOwner ==
  [][ (/\ ret'.op = "RemoveFeed"
       /\ \E r \in feeds : r.id = ret'.feedID /\ r.user_id # ret'.userID)
      => /\ feeds' = feeds
         /\ ret'.err # NilErr
         /\ (ret'.fault = "none" => ret'.err = ErrNoFeedRemoved) ]_vars

C5_Witness ==
  /\ ret.op = "RemoveFeed"
  /\ ret.err = ErrNoFeedRemoved
  /\ \E r \in feeds : r.id = ret.feedID /\ r.user_id # ret.userID

\* C6: RemoveFeed is not idempotent.  On a feed the caller owns (and a store
\* that answers) it returns nil and deletes exactly that row, after which
\* FeedExists is false and FeedByID is absent; a RemoveFeed of a pair that an
\* earlier RemoveFeed returned nil for returns an error.
C6_RemoveNotIdempotent ==
  [][ \A u \in Users, f \in FeedIDs :
        (ret'.op = "RemoveFeed" /\ ret'.userID = u /\ ret'.feedID = f) =>
          LET own == {r \in feeds : r.id = f /\ r.user_id = u}
          IN  /\ (own # {} /\ ret'.fault = "none" =>
                    /\ ret'.err = NilErr
                    /\ Cardinality(own) = 1
                    /\ feeds' = feeds \ own
                    /\ ~FeedExists(u, f, FALSE)'
                    /\ FeedByID(u, f, FALSE)' = [feed |-> NilFeed, err |-> NilErr])
              /\ (<<u, f>> \in removedLog => ret'.err # NilErr) ]_vars

C6_Witness ==
  /\ ret.op = "RemoveFeed"
  /\ ret.fault = "none"
  /\ ret.err = ErrNoFeedRemoved
  /\ <<ret.userID, ret.feedID>> \in removedLog

\* C7: FeedByID returns (nil, nil) when no row has both the id and the
\* owner, also when the id exists under another owner; a non-nil feed is
\* always the row with that id and that owner; a failed query is an error,
\* never the absent result.
C7_FeedByIDOwnership ==
  ret.op = "FeedByID" =>
    LET match == {r \in feeds : r.id = ret.feedID /\ r.user_id = ret.userID}
    IN  /\ (match = {} /\ ~ret.dbFails => ret.feed = NilFeed /\ ret.err = NilErr)
        /\ (ret.feed # NilFeed =>
              /\ ret.err = NilErr
              /\ ret.feed.ID = ret.feedID
              /\ ret.feed.UserID = ret.userID
              /\ \E r \in match : ret.feed = ScanFeedRow(r, ret.userID))
        /\ (ret.dbFails => ret.err # NilErr /\ ret.feed = NilFeed)

C7_Witness ==
  /\ ret.op = "FeedByID"
  /\ ret.feed = NilFeed
  /\ ret.err = NilErr
  /\ \E r \in feeds : r.id = ret.feedID /\ r.user_id # ret.userID

\* C8: Feeds(userID) returns exactly the feeds owned by userID, each once,
\* none of another user, by parsing-error count descending and, among equal
\* counts, by lower-cased title ascending.
C8_FeedsOwnedAndOrdered ==
  ret.op = "Feeds" /\ ret.err = NilErr =>
    LET fs == ret.feeds
        n == Len(fs)
    IN  /\ {fs[i].ID : i \in 1..n} = {r.id : r \in {q \in feeds : q.user_id = ret.userID}}
        /\ \A i, j \in 1..n : i # j => fs[i].ID # fs[j].ID
        /\ \A i \in 1..n :
             /\ fs[i].UserID = ret.userID
             /\ \E r \in feeds : /\ r.id = fs[i].ID
                                 /\ r.title = fs[i].Title
                                 /\ r.parsing_error_count = fs[i].ParsingErrorCount
        /\ \A i \in 1..(n - 1) :
             \/ fs[i].ParsingErrorCount > fs[i + 1].ParsingErrorCount
             \/ /\ fs[i].ParsingErrorCount = fs[i + 1].ParsingErrorCount
                /\ ~StrLess(Lower(fs[i + 1].Title), Lower(fs[i].Title))

C8_Witness ==
  /\ ret.op = "Feeds"
  /\ ret.err = NilErr
  /\ Len(ret.feeds) = 2
  /\ ret.feeds[1].ParsingErrorCount = ret.feeds[2].ParsingErrorCount
  /\ ret.feeds[1].Title = TitleLowerA
  /\ ret.feeds[2].Title = TitleUpperB
  /\ \E r \in feeds : r.user_id # ret.userID

\* C9: after a successful CreateFeed(feed), FeedByID(feed.UserID, feed.ID)
\* returns a feed equal to the payload on every caller-supplied field, and
\* the identifier written back is positive and was never issued before.
C9_CreateThenFeedByID ==
  ret.op = "CreateFeed" /\ ret.err = NilErr =>
    LET p == ret.feed
        got == FeedByID(p.UserID, p.ID, FALSE).feed
    IN  /\ got # NilFeed
        /\ got.FeedURL = p.FeedURL
        /\ got.SiteURL = p.SiteURL
        /\ got.Title = p.Title
        /\ got.Category.ID = p.Category.ID
        /\ got.UserID = p.UserID
        /\ got.EtagHeader = p.EtagHeader
        /\ got.LastModifiedHeader = p.LastModifiedHeader
        /\ got.Crawler = p.Crawler
        /\ got.UserAgent = p.UserAgent
        /\ got.Username = p.Username
        /\ got.Password = p.Password
        /\ got.ScraperRules = p.ScraperRules
        /\ got.RewriteRules = p.RewriteRules
        /\ got.IgnoreHTTPCache = p.IgnoreHTTPCache
        /\ got.FetchViaProxy = p.FetchViaProxy
        /\ got.Disabled = p.Disabled
        /\ p.ID > 0
        /\ p.ID = created[Len(created)]
        /\ \A i, j \in 1..Len(created) : i # j => created[i] # created[j]

\* C10: right after a successful CreateFeed of URL x for user u returning f,
\* FeedURLExists(u, x) is true and AnotherFeedURLExists(u, f, x) is false
\* unless another feed of u has URL x; AnotherFeedURLExists(u, f, x) is true
\* exactly when a feed of u other than f has URL x, and FeedURLExists(u, x)
\* is true only when a feed of u has URL x.
C10_URLPredicates ==
  /\ (ret.op = "CreateFeed" /\ ret.err = NilErr =>
        LET u == ret.feed.UserID
            x == ret.feed.FeedURL
            f == ret.feed.ID
        IN  /\ FeedURLExists(u, x, FALSE)
            /\ (~(\E r \in feeds : r.user_id = u /\ r.id # f /\ r.feed_url = x)
                  => ~AnotherFeedURLExists(u, f, x, FALSE)))
  /\ (ret.op = "AnotherFeedURLExists" /\ ~ret.dbFails =>
        (ret.result <=>
           Cardinality({r \in feeds : r.user_id = ret.userID /\ r.feed_url = ret.feedURL}
                       \ {r \in feeds : r.id = ret.feedID}) > 0))
  /\ (ret.op = "FeedURLExists" /\ ret.result =>
        \E r \in feeds : r.user_id = ret.userID /\ r.feed_url = ret.feedURL)

C10_Witness ==
  /\ ret.op = "CreateFeed"
  /\ ret.err = NilErr
  /\ \E r \in feeds : r.user_id # ret.feed.UserID /\ r.feed_url = ret.feed.FeedURL
  /\ ~AnotherFeedURLExists(ret.feed.UserID, ret.feed.ID, ret.feed.FeedURL, FALSE)
  /\ FeedURLExists(ret.feed.UserID, ret.feed.FeedURL, FALSE)

\* the entries rows of a feed that carry a payload entry's identity
PersistedAs(feed, entry) ==
  {e \in entries : e.feed_id = feed.ID /\ e.user_id = feed.UserID /\ e.hash = entry.Hash}

C3_NotAtomic ==
  ret.op = "CreateFeed" /\ ret.err # NilErr /\ ret.failedAt >= 1 =>
    /\ InsertedFeedRow(ret.feed, ret.feed.ID) \in feeds
    /\ \A j \in 1..(ret.failedAt - 1) : PersistedAs(ret.feed, ret.feed.Entries[j]) # {}

C3_Witness ==
  /\ ret.op = "CreateFeed"
  /\ ret.err # NilErr
  /\ ret.failedAt = 2
  /\ ret.inserted = {1}
  /\ PersistedAs(ret.feed, ret.feed.Entries[1]) # {}

\* C4: when CreateFeed succeeds, every entry of the payload is persisted
\* exactly once for the created feed, also one the payload lists twice.
C4_DedupWithinPayload ==
  ret.op = "CreateFeed" /\ ret.err = NilErr =>
    \A i \in 1..Len(ret.feed.Entries) :
      Cardinality(PersistedAs(ret.feed, ret.feed.Entries[i])) = 1

C4_Witness ==
  /\ ret.op = "CreateFeed"
  /\ ret.err = NilErr
  /\ Len(ret.feed.Entries) = 2
  /\ ret.feed.Entries[1].Hash = ret.feed.Entries[2].Hash
  /\ ret.inserted = {1}
  /\ Cardinality(PersistedAs(ret.feed, ret.feed.Entries[1])) = 1

\* the entries of a user and feed that have a given status
EntriesWith(userID, feedID, status) ==
  {e \in entries : e.user_id = userID /\ e.feed_id = feedID /\ e.status = status}

\* C1: with no write between the two queries, FeedsWithCounters(userID)
\* returns every feed of the user with ReadCount the number of its read
\* entries and UnreadCount the number of its unread entries; entries of any
\* other status count for neither, and a feed without read or unread entries
\* is returned with 0 and 0.
C1_CountersMatchEntries ==
  ret.op = "FeedsWithCounters" /\ ret.err = NilErr /\ ~ret.dirty =>
    /\ {ret.feeds[i].ID : i \in 1..Len(ret.feeds)}
         = {r.id : r \in {q \in feeds : q.user_id = ret.userID}}
    /\ \A i \in 1..Len(ret.feeds) :
         /\ ret.feeds[i].ReadCount
              = Cardinality(EntriesWith(ret.userID, ret.feeds[i].ID, "read"))
         /\ ret.feeds[i].UnreadCount
              = Cardinality(EntriesWith(ret.userID, ret.feeds[i].ID, "unread"))

C1_Witness ==
  /\ ret.op = "FeedsWithCounters"
  /\ ret.err = NilErr
  /\ ~ret.dirty
  /\ \E i \in 1..Len(ret.feeds) :
       /\ ret.feeds[i].ReadCount = 1
       /\ ret.feeds[i].UnreadCount = 0
       /\ EntriesWith(ret.userID, ret.feeds[i].ID, "removed") # {}

\* ------------------------------------------------------- the count operations
\* a nil Go map, and a read of a Go map (a missing key reads as zero, also
\* on a nil map)
NilMap == [nil |-> TRUE]
MapGet(m, k) == IF k \in DOMAIN m THEN m[k] ELSE 0

\* SELECT disabled, count(*) FROM feeds GROUP BY disabled: one row per value
\* of disabled that some feed has
CountAllFeedsQuery ==
  { [disabled |-> d, count |-> Cardinality({r \in feeds : r.disabled = d})]
    : d \in {r.disabled : r \in feeds} }

CountAllFeedsKey_Swapped(disabled) == IF disabled THEN "enabled" ELSE "disabled"

\* lines 99-103: the key a scanned row is stored under
CountAllFeedsKey(disabled) == IF disabled THEN "disabled" ELSE "enabled"

\* CountAllFeeds: nil when the query fails; a row whose scan fails is skipped
\* (continue), which leaves its group at the 0 of lines 88-89; total is the
\* sum of the two entries.  scanFails is the set of disabled values whose row
\* fails to scan.
CountAllFeeds(queryFails, scanFails) ==
  IF queryFails THEN NilMap
  ELSE LET scanned == {q \in CountAllFeedsQuery : q.disabled \notin scanFails}
           at(key) == IF \E q \in scanned : CountAllFeedsKey(q.disabled) = key
                      THEN (CHOOSE q \in scanned : CountAllFeedsKey(q.disabled) = key).count
                      ELSE 0
       IN  [enabled |-> at("enabled"),
            disabled |-> at("disabled"),
            total |-> at("disabled") + at("enabled")]

CallCountAllFeeds(queryFails, scanFails) ==
  /\ ret' = [op |-> "CountAllFeeds",
             dbFails |-> queryFails \/ \E q \in CountAllFeedsQuery : q.disabled \in scanFails,
             queryFails |-> queryFails, scanFails |-> scanFails,
             result |-> CountAllFeeds(queryFails, scanFails)]
  /\ ReadOnly

\* SELECT count(*) FROM feeds WHERE user_id=$1; 0 when the query or the scan
\* fails
CountFeeds(userID, dbFails) ==
  IF dbFails THEN 0 ELSE Cardinality({r \in feeds : r.user_id = userID})

\* the threshold the two error counts compare parsing_error_count with
maxParsingError == 3

\* SELECT count(*) FROM feeds WHERE user_id=$1 AND parsing_error_count >= $2
CountUserFeedsWithErrors(userID, dbFails) ==
  IF dbFails THEN 0
  ELSE Cardinality({r \in feeds :
                      r.user_id = userID /\ r.parsing_error_count >= maxParsingError})

\* SELECT count(*) FROM feeds WHERE parsing_error_count >= $1
CountAllFeedsWithErrors(dbFails) ==
  IF dbFails THEN 0
  ELSE Cardinality({r \in feeds : r.parsing_error_count >= maxParsingError})

CallCountFeeds(userID, dbFails) ==
  /\ ret' = [op |-> "CountFeeds", userID |-> userID, dbFails |-> dbFails,
             result |-> CountFeeds(userID, dbFails)]
  /\ ReadOnly

CallCountUserFeedsWithErrors(userID, dbFails) ==
  /\ ret' = [op |-> "CountUserFeedsWithErrors", userID |-> userID, dbFails |-> dbFails,
             result |-> CountUserFeedsWithErrors(userID, dbFails)]
  /\ ReadOnly

CallCountAllFeedsWithErrors(dbFails) ==
  /\ ret' = [op |-> "CountAllFeedsWithErrors", dbFails |-> dbFails,
             result |-> CountAllFeedsWithErrors(dbFails)]
  /\ ReadOnly

\* ---------------------------------------------------------- ResetFeedErrors
ResetFeedRow_CountOnly(row) == [row EXCEPT !.parsing_error_count = 0]

\* UPDATE feeds SET parsing_error_count=0, parsing_error_msg='' (no WHERE)
ResetFeedRow(row) ==
  [row EXCEPT !.parsing_error_count = 0, !.parsing_error_msg = ""]

\* ResetFeedErrors returns the error of Exec as it is
ResetFeedErrors(dbFails) ==
  /\ IF dbFails
     THEN /\ ret' = [op |-> "ResetFeedErrors", dbFails |-> dbFails, err |-> ErrDB]
          /\ UNCHANGED <<feeds, ff>>
     ELSE /\ feeds' = {ResetFeedRow(r) : r \in feeds}
          /\ ff' = MarkWrite(ff)
          /\ ret' = [op |-> "ResetFeedErrors", dbFails |-> dbFails, err |-> NilErr]
  /\ UNCHANGED <<entries, nextFeedID, nextEntryID, cf, created, removedLog>>

\* the feeds the refresh pipeline hands to UpdateFeedError after repeated
\* failures: error counts just below and at the threshold
ThresholdPayloads ==
  { [Payload(u, "http://zz", TitleUpperC, 2, TRUE) EXCEPT
       !.ID = f, !.ParsingErrorCount = n, !.ParsingErrorMsg = "fetch error",
       !.CheckedAt = Time(n, "UTC"), !.NextCheckAt = Time(n + 1, "UTC")]
    : u \in Users, f \in FeedIDs, n \in {maxParsingError - 1, maxParsingError} }

\* a feed the refresh pipeline hands to UpdateFeed with an error count at the
\* threshold
ThresholdUpdatePayloads ==
  { [Payload(u, "http://b", TitleUpperC, 2, TRUE) EXCEPT
       !.ID = f, !.ParsingErrorCount = maxParsingError,
       !.ParsingErrorMsg = "fetch error",
       !.CheckedAt = Time(maxParsingError, "UTC"),
       !.NextCheckAt = Time(maxParsingError + 1, "UTC")]
    : u \in Users, f \in FeedIDs }

\* SpecCount: creates, error updates, removes and resets, and the four count
\* operations, whose query (or row scan) may fail
NextCount ==
  \/ /\ nextFeedID <= MaxCreateCalls
     /\ \E feed \in FeedPayloads : CreateFeed(feed, FALSE)
  \/ \E feed \in ThresholdPayloads : UpdateFeedError(feed, FALSE)
  \/ \E u \in Users, f \in FeedIDs : RemoveFeed(u, f, "none")
  \/ \E dbFails \in BOOLEAN : ResetFeedErrors(dbFails)
  \/ \E queryFails \in BOOLEAN, scanFails \in SUBSET BOOLEAN :
       CallCountAllFeeds(queryFails, scanFails)
  \/ \E u \in Users, dbFails \in BOOLEAN : CallCountFeeds(u, dbFails)
  \/ \E u \in Users, dbFails \in BOOLEAN : CallCountUserFeedsWithErrors(u, dbFails)
  \/ \E dbFails \in BOOLEAN : CallCountAllFeedsWithErrors(dbFails)

SpecCount == Init /\ [][NextCount]_vars

\* C11: the map CountAllFeeds returns always has total = enabled + disabled
\* (read as Go reads a map), and when the store answers, enabled is the
\* number of feeds with disabled=false and disabled the number with
\* disabled=true, a group without rows being 0, the empty store included.
C11_CountAllConsistent ==
  ret.op = "CountAllFeeds" =>
    /\ MapGet(ret.result, "total")
         = MapGet(ret.result, "enabled") + MapGet(ret.result, "disabled")
    /\ (~ret.dbFails =>
          /\ ret.result # NilMap
          /\ ret.result.enabled = Cardinality({r \in feeds : ~r.disabled})
          /\ ret.result.disabled = Cardinality({r \in feeds : r.disabled})
          /\ ret.result.total = Cardinality(feeds))

C11_Witness ==
  /\ ret.op = "CountAllFeeds"
  /\ ~ret.dbFails
  /\ ret.result.enabled = 2
  /\ ret.result.disabled = 0
  /\ ret.result.total = 2

\* ---------------------------------------------------- WeeklyFeedEntryCount
\* instants are counted in days; interval '1 week'
Week == 7
ErrWeeklyCount == "store: unable to fetch weekly count for feed"

\* the instants now() of the calls, and the publication dates of the entries
\* handed to CreateFeed: exactly a week before the first call (more than a
\* week before the second), exactly a week before the second call, and the
\* instant of the second call (after the first)
Nows == {Week, Week + 1}
Dates == {0, 1, Week + 1}

WeeklyWindow_HalfOpen(publishedAt, now) ==
  publishedAt >= now - Week /\ publishedAt < now

\* published_at BETWEEN (now() - interval '1 week') AND now()
WeeklyWindow(publishedAt, now) ==
  publishedAt >= now - Week /\ publishedAt <= now

\* WeeklyFeedEntryCount: the pair (count, err) it returns.  count(*) always
\* yields one row, so sql.ErrNoRows does not arise from the query itself.
WeeklyFeedEntryCount(userID, feedID, now, dbFails) ==
  IF dbFails THEN [count |-> 0, err |-> ErrWeeklyCount]
  ELSE [count |-> Cardinality({e \in entries :
                                 /\ e.user_id = userID
                                 /\ e.feed_id = feedID
                                 /\ WeeklyWindow(e.published_at, now)}),
        err |-> NilErr]

CallWeeklyFeedEntryCount(userID, feedID, now, dbFails) ==
  /\ LET r == WeeklyFeedEntryCount(userID, feedID, now, dbFails)
     IN  ret' = [op |-> "WeeklyFeedEntryCount", userID |-> userID, feedID |-> feedID,
                 now |-> now, dbFails |-> dbFails, count |-> r.count, err |-> r.err]
  /\ ReadOnly

\* the feeds callers create in the failure specification: one per user
FailPayloads == {Payload(u, "http://a", TitleLowerA, 1, FALSE) : u \in Users}

\* SpecFail: every operation that is not an existence predicate, on a small
\* store.  Every store call of a read, of CreateFeed and of RemoveFeed may
\* fail or not; the store calls of the updates and of the reset fail (their
\* successful runs are part of Spec, SpecList and SpecCount).
NextFail ==
  \/ /\ nextFeedID <= MaxCreateCalls
     /\ \E feed \in FailPayloads, dbFails \in BOOLEAN : CreateFeed(feed, dbFails)
  \/ \E feed \in UpdatePayloads : UpdateFeed(feed, TRUE)
  \/ \E feed \in ErrorPayloads : UpdateFeedError(feed, TRUE)
  \/ \E u \in Users, f \in FeedIDs, fault \in {"none", "exec", "rowsAffected"} :
       RemoveFeed(u, f, fault)
  \/ ResetFeedErrors(TRUE)
  \/ \E u \in Users, f \in FeedIDs, dbFails \in BOOLEAN : CallFeedByID(u, f, dbFails)
  \/ \E u \in Users, dbFails \in BOOLEAN : Feeds(u, dbFails)
  \/ \E u \in Users, dbFails \in BOOLEAN : FetchFeedsCounterQuery(u, dbFails)
  \/ \E dbFails \in BOOLEAN : FetchFeedsFeedQuery(dbFails)
  \/ \E u \in Users, f \in FeedIDs, now \in Nows, dbFails \in BOOLEAN :
       CallWeeklyFeedEntryCount(u, f, now, dbFails)
  \/ \E queryFails \in BOOLEAN, scanFails \in SUBSET BOOLEAN :
       CallCountAllFeeds(queryFails, scanFails)
  \/ \E u \in Users, dbFails \in BOOLEAN : CallCountFeeds(u, dbFails)
  \/ \E u \in Users, dbFails \in BOOLEAN : CallCountUserFeedsWithErrors(u, dbFails)
  \/ \E dbFails \in BOOLEAN : CallCountAllFeedsWithErrors(dbFails)

SpecFail == Init /\ [][NextFail]_vars

\* the operations that return an error value, and the count operations
ErrorOps ==
  {"CreateFeed", "UpdateFeed", "UpdateFeedError", "RemoveFeed", "ResetFeedErrors",
   "FeedByID", "Feeds", "FeedsWithCounters", "WeeklyFeedEntryCount"}
ScalarCountOps == {"CountFeeds", "CountUserFeedsWithErrors", "CountAllFeedsWithErrors"}

ConfigColumns ==
  {"id", "feed_url", "site_url", "title", "category_id", "user_id", "etag_header",
   "last_modified_header", "crawler", "user_agent", "username", "password",
   "disabled", "scraper_rules", "rewrite_rules", "fetch_via_proxy",
   "ignore_http_cache"}

\* C13: an UpdateFeedError(feed) that returns nil leaves every row other than
\* the one matching (feed.ID, feed.UserID) as it was, and in the matching row
\* sets the error message, error count, checked-at and next-check-at to the
\* payload's and keeps every other column, whatever the payload carries there.
C13_UpdateFeedErrorFrame ==
  [][ (ret'.op = "UpdateFeedError" /\ ret'.err = NilErr) =>
        LET feed == ret'.feed
            hit == {r \in feeds : r.id = feed.ID /\ r.user_id = feed.UserID}
        IN  /\ feeds \ hit \subseteq feeds'
            /\ Cardinality(feeds') = Cardinality(feeds)
            /\ \A r \in hit :
                 \E n \in feeds' :
                   /\ \A c \in ConfigColumns : n[c] = r[c]
                   /\ n.parsing_error_msg = feed.ParsingErrorMsg
                   /\ n.parsing_error_count = feed.ParsingErrorCount
                   /\ n.checked_at = feed.CheckedAt.instant
                   /\ n.next_check_at = feed.NextCheckAt.instant ]_vars

C13_Witness ==
  /\ ret.op = "UpdateFeedError"
  /\ ret.err = NilErr
  /\ \E r \in feeds :
       /\ r.id = ret.feed.ID
       /\ r.user_id = ret.feed.UserID
       /\ r.parsing_error_count = ret.feed.ParsingErrorCount
       /\ r.title # ret.feed.Title
       /\ r.feed_url # ret.feed.FeedURL
       /\ r.disabled # ret.feed.Disabled
  /\ Cardinality(feeds) >= 2

\* the user an UpdateFeed, UpdateFeedError or RemoveFeed call is scoped to
ScopingUser(r) == IF r.op = "RemoveFeed" THEN r.userID ELSE r.feed.UserID

\* C14: an UpdateFeed, UpdateFeedError or RemoveFeed call scoped to user u
\* leaves every row of another owner in the table as it was, and no step
\* changes the owner of an identifier or brings back a removed identifier
\* (so id and user_id stay what CreateFeed assigned).
C14_MutationsOwnerScoped ==
  [][ /\ (ret'.op \in {"UpdateFeed", "UpdateFeedError", "RemoveFeed"} =>
            /\ \A r \in feeds : r.user_id # ScopingUser(ret') => r \in feeds'
            /\ {n.id : n \in feeds'} \subseteq {r.id : r \in feeds})
      /\ \A r \in feeds, n \in feeds' : n.id = r.id => n.user_id = r.user_id
      /\ \A n \in feeds' : n.id \in {r.id : r \in feeds} \/ n.id = nextFeedID ]_vars

C14_Witness ==
  /\ ret.op = "UpdateFeed"
  /\ ret.err = NilErr
  /\ \E r \in feeds :
       /\ r.id = ret.feed.ID
       /\ r.user_id # ret.feed.UserID
       /\ r.title # ret.feed.Title
  /\ \E r \in feeds : r.user_id = ret.feed.UserID /\ r.title = ret.feed.Title

\* ----------------------------------------------- FeedsByCategoryWithCounters
CategoryFeedQuery_NoCategory(userID, categoryID) ==
  Ordered({r \in feeds : r.user_id = userID})

\* feedQuery of FeedsByCategoryWithCounters: WHERE f.user_id=$1 AND
\* f.category_id=$2, same ORDER BY as feedListQuery
CategoryFeedQuery(userID, categoryID) ==
  Ordered({r \in feeds : r.user_id = userID /\ r.category_id = categoryID})

\* counterQuery of FeedsByCategoryWithCounters: entries e LEFT JOIN feeds f ON
\* f.id=e.feed_id WHERE e.user_id=$1 AND f.category_id=$2 AND e.status IN
\* ('read', 'unread') GROUP BY e.feed_id, e.status
CategoryCounterQuery(userID, categoryID) ==
  LET sel == {e \in entries :
                /\ e.user_id = userID
                /\ e.status \in {"read", "unread"}
                /\ \E f \in feeds : f.id = e.feed_id /\ f.category_id = categoryID}
  IN  { [feed_id |-> g[1], status |-> g[2],
         count |-> Cardinality({e \in sel : e.feed_id = g[1] /\ e.status = g[2]})]
        : g \in {<<e.feed_id, e.status>> : e \in sel} }

\* lines 259-265 for FeedsByCategoryWithCounters: the counter query
FetchByCategoryCounterQuery(userID, categoryID, dbFails) ==
  /\ ff.pc = "idle"
  /\ IF dbFails
     THEN /\ ff' = IdleFetch
          /\ ret' = [op |-> "FeedsByCategoryWithCounters", userID |-> userID,
                     categoryID |-> categoryID, feeds |-> <<>>,
                     err |-> ErrFetchCounts, dirty |-> FALSE, dbFails |-> TRUE]
     ELSE LET maps == fetchFeedCounter(CategoryCounterQuery(userID, categoryID))
          IN  /\ ff' = [pc |-> "rowsByCategory", userID |-> userID,
                        categoryID |-> categoryID, readCounters |-> maps[1],
                        unreadCounters |-> maps[2], dirty |-> FALSE]
              /\ ret' = NoRet
  /\ UNCHANGED <<feeds, entries, nextFeedID, nextEntryID, cf, created, removedLog>>

\* lines 267-329 for FeedsByCategoryWithCounters: the feed query and the row
\* loop
FetchByCategoryFeedQuery(dbFails) ==
  /\ ff.pc = "rowsByCategory"
  /\ ff' = IdleFetch
  /\ IF dbFails
     THEN ret' = [op |-> "FeedsByCategoryWithCounters", userID |-> ff.userID,
                  categoryID |-> ff.categoryID, feeds |-> <<>>,
                  err |-> ErrFetchFeeds, dirty |-> ff.dirty, dbFails |-> TRUE]
     ELSE \E rows \in CategoryFeedQuery(ff.userID, ff.categoryID) :
            ret' = [op |-> "FeedsByCategoryWithCounters", userID |-> ff.userID,
                    categoryID |-> ff.categoryID,
                    feeds |-> FetchFeedsRows(rows, TRUE, ff.readCounters,
                                             ff.unreadCounters),
                    err |-> NilErr, dirty |-> ff.dirty, dbFails |-> FALSE]
  /\ UNCHANGED <<feeds, entries, nextFeedID, nextEntryID, cf, created, removedLog>>

\* the feeds callers create in the category specification: two of user 1 in
\* category 1 with titles that sort apart, one of user 1 in category 2, one
\* of user 2 in category 1, each with up to MaxFeedEntries entries
CategoryPayloads ==
  { [Payload(p[1], "http://a", p[3], p[2], FALSE) EXCEPT
       !.Entries = [i \in 1..k |-> EntryPayload(i)]]
    : p \in {<<1, 1, TitleLowerA>>, <<1, 1, TitleUpperB>>, <<1, 2, TitleLowerA>>,
             <<2, 1, TitleLowerA>>},
      k \in 0..MaxFeedEntries }

\* SpecCategory: feeds of several categories are created with entries (at
\* most MaxFeedEntries entries in the whole table), entries are marked read,
\* and callers list feeds with counters, all of them or one category
NextCategory ==
  \/ /\ nextFeedID <= MaxCounterFeeds
     /\ \E feed \in CategoryPayloads :
          /\ nextEntryID + Len(feed.Entries) - 1 <= MaxFeedEntries
          /\ CreateFeed(feed, FALSE)
  \/ CreateFeedBegin(FALSE)
  \/ CreateFeedEntryExists(FALSE)
  \/ CreateFeedCreateEntry(FALSE)
  \/ CreateFeedCommit(FALSE)
  \/ \E e \in entries : SetEntryStatus(e.id, "read")
  \/ \E u \in Users : FetchFeedsCounterQuery(u, FALSE)
  \/ FetchFeedsFeedQuery(FALSE)
  \/ \E u \in Users, c \in Categories : FetchByCategoryCounterQuery(u, c, FALSE)
  \/ FetchByCategoryFeedQuery(FALSE)

SpecCategory == Init /\ [][NextCategory]_vars

\* what FeedsWithCounters(userID) and FeedsByCategoryWithCounters(userID,
\* categoryID) can return when both of their queries see the present store
\* (rows with equal sort keys may come in any order)
QuiescentFeedsWithCounters(userID) ==
  LET maps == fetchFeedCounter(CounterQuery(userID))
  IN  {FetchFeedsRows(rows, TRUE, maps[1], maps[2]) : rows \in FeedListQuery(userID)}

QuiescentFeedsByCategory(userID, categoryID) ==
  LET maps == fetchFeedCounter(CategoryCounterQuery(userID, categoryID))
  IN  {FetchFeedsRows(rows, TRUE, maps[1], maps[2])
         : rows \in CategoryFeedQuery(userID, categoryID)}

\* the feeds of a list that are in a category, in the order of the list
InCategory(list, categoryID) ==
  SelectSeq(list, LAMBDA feed : feed.Category.ID = categoryID)

\* C15: with no write between its two queries, what
\* FeedsByCategoryWithCounters(userID, categoryID) returns is a result of
\* FeedsWithCounters(userID) in the same store restricted to the feeds of
\* that category, order and counters kept; and every result of
\* FeedsWithCounters(userID), so restricted, is a result of
\* FeedsByCategoryWithCounters(userID, categoryID).
C15_ByCategoryIsRestriction ==
  /\ (ret.op = "FeedsByCategoryWithCounters" /\ ret.err = NilErr /\ ~ret.dirty =>
        \E all \in QuiescentFeedsWithCounters(ret.userID) :
          ret.feeds = InCategory(all, ret.categoryID))
  /\ (ret.op = "FeedsWithCounters" /\ ret.err = NilErr /\ ~ret.dirty =>
        \A c \in Categories :
          InCategory(ret.feeds, c) \in QuiescentFeedsByCategory(ret.userID, c))

C15_Witness ==
  /\ ret.op = "FeedsByCategoryWithCounters"
  /\ ret.err = NilErr
  /\ ~ret.dirty
  /\ Len(ret.feeds) = 1
  /\ ret.feeds[1].ReadCount = 1
  /\ \E r \in feeds :
       /\ r.user_id = ret.userID
       /\ r.category_id # ret.categoryID
       /\ \E e \in entries : e.feed_id = r.id /\ e.status = "unread"

\* SpecReset: feeds are created, the refresh pipeline stores error counts
\* below and at the threshold, errors are reset (the reset may fail), and
\* callers ask for the two error counts
NextReset ==
  \/ /\ nextFeedID <= MaxCreateCalls
     /\ \E feed \in FailPayloads : CreateFeed(feed, FALSE)
  \/ \E feed \in ThresholdPayloads : UpdateFeedError(feed, FALSE)
  \/ \E feed \in ThresholdUpdatePayloads : UpdateFeed(feed, FALSE)
  \/ \E dbFails \in BOOLEAN : ResetFeedErrors(dbFails)
  \/ \E u \in Users : CallCountUserFeedsWithErrors(u, FALSE)
  \/ CallCountAllFeedsWithErrors(FALSE)

SpecReset == Init /\ [][NextReset]_vars

\* the columns ResetFeedErrors does not name
KeptByReset == ConfigColumns \cup {"checked_at", "next_check_at"}

\* C16: a ResetFeedErrors that returns nil leaves every feed of every user
\* with error count 0 and an empty error message and every other column as
\* it was, so that both error counts are 0 for every user; and an error
\* count only goes up in a step that is an UpdateFeed or UpdateFeedError
\* whose payload carries a count at or above the threshold.
C16_ResetClearsErrors ==
  [][ /\ (ret'.op = "ResetFeedErrors" /\ ret'.err = NilErr =>
            /\ \A n \in feeds' : n.parsing_error_count = 0 /\ n.parsing_error_msg = ""
            /\ Cardinality(feeds') = Cardinality(feeds)
            /\ \A r \in feeds : \E n \in feeds' : \A c \in KeptByReset : n[c] = r[c]
            /\ CountAllFeedsWithErrors(FALSE)' = 0
            /\ \A u \in Users : CountUserFeedsWithErrors(u, FALSE)' = 0)
      /\ ((\/ CountAllFeedsWithErrors(FALSE)' > CountAllFeedsWithErrors(FALSE)
           \/ \E u \in Users :
                CountUserFeedsWithErrors(u, FALSE)' > CountUserFeedsWithErrors(u, FALSE))
            => /\ ret'.op \in {"UpdateFeed", "UpdateFeedError"}
               /\ ret'.feed.ParsingErrorCount >= maxParsingError) ]_vars

C16_Witness ==
  /\ ret.op = "ResetFeedErrors"
  /\ ret.err = NilErr
  /\ \E r \in feeds :
       /\ r.checked_at = maxParsingError
       /\ r.parsing_error_count = 0
       /\ r.parsing_error_msg = ""
  /\ \E r \in feeds : r.checked_at = 0

\* the feeds callers create in the weekly-count specification: for either
\* user, with up to MaxFeedEntries entries, each published at one of Dates
WeeklyPayloads ==
  { [Payload(u, "http://a", TitleLowerA, 1, FALSE) EXCEPT
       !.Entries = [i \in DOMAIN ds |-> [EntryPayload(i) EXCEPT !.Date = ds[i]]]]
    : u \in Users, ds \in UNION {[1..k -> Dates] : k \in 0..MaxFeedEntries} }

\* SpecWeekly: feeds are created with dated entries (at most MaxFeedEntries
\* entries in the whole table), and callers ask for the weekly count of a
\* feed at some instant
NextWeekly ==
  \/ /\ nextFeedID <= MaxCounterFeeds
     /\ \E feed \in WeeklyPayloads :
          /\ nextEntryID + Len(feed.Entries) - 1 <= MaxFeedEntries
          /\ CreateFeed(feed, FALSE)
  \/ CreateFeedBegin(FALSE)
  \/ CreateFeedEntryExists(FALSE)
  \/ CreateFeedCreateEntry(FALSE)
  \/ CreateFeedCommit(FALSE)
  \/ \E u \in Users, f \in FeedIDs, now \in Nows :
       CallWeeklyFeedEntryCount(u, f, now, FALSE)

SpecWeekly == Init /\ [][NextWeekly]_vars

\* C17: WeeklyFeedEntryCount(userID, feedID) at instant now returns, when
\* the store answers, the number of entries of that user and feed published
\* no more than 7 days before now and not after now, without error: 0 when
\* there is none.
C17_WeeklyCountWindow ==
  ret.op = "WeeklyFeedEntryCount" /\ ~ret.dbFails =>
    /\ ret.err = NilErr
    /\ ret.count = Cardinality({e \in entries :
                                  /\ e.user_id = ret.userID
                                  /\ e.feed_id = ret.feedID
                                  /\ ret.now - e.published_at \in 0..7})

C17_Witness ==
  /\ ret.op = "WeeklyFeedEntryCount"
  /\ ~ret.dbFails
  /\ ret.count = 1
  /\ \E e \in entries :
       /\ e.user_id = ret.userID /\ e.feed_id = ret.feedID
       /\ e.published_at = ret.now
  /\ \E e \in entries :
       /\ e.user_id = ret.userID /\ e.feed_id = ret.feedID
       /\ e.published_at < ret.now - 7

StaleCounters(r) ==
  \E i \in 1..Len(r.feeds) :
    \/ r.feeds[i].ReadCount
         # Cardinality(EntriesWith(r.userID, r.feeds[i].ID, "read"))
    \/ r.feeds[i].UnreadCount
         # Cardinality(EntriesWith(r.userID, r.feeds[i].ID, "unread"))

\* C19: the counter query and the feed-row query of FeedsWithCounters and
\* FeedsByCategoryWithCounters are two separate reads that writers interleave
\* with.  A returned listing whose counters differ from the entry counts of
\* the store state in which its feed rows were read had a writer commit
\* between its two reads: with no writer in between the counters always
\* match.  (That such a listing is reachable is what C19_Witness shows.)
C19_StaleOnlyAfterWrite ==
  /\ ret.op \in {"FeedsWithCounters", "FeedsByCategoryWithCounters"}
  /\ ret.err = NilErr
  /\ StaleCounters(ret)
  => ret.dirty

\* a by-category listing returned with an UnreadCount of 1 for a feed that,
\* in the state its row was read in, has no unread entry: its entry was
\* marked read between the two queries
C19_Witness ==
  /\ ret.op = "FeedsByCategoryWithCounters"
  /\ ret.err = NilErr
  /\ ret.dirty
  /\ \E i \in 1..Len(ret.feeds) :
       /\ ret.feeds[i].UnreadCount = 1
       /\ ret.feeds[i].ReadCount = 0
       /\ EntriesWith(ret.userID, ret.feeds[i].ID, "unread") = {}
       /\ EntriesWith(ret.userID, ret.feeds[i].ID, "read") # {}

\* ------------------------------------------------ updates that match no row
\* the rows a call's (feed id, user id) pair matches before the call
MatchedBy(r) ==
  IF r.op = "RemoveFeed"
  THEN {q \in feeds : q.id = r.feedID /\ q.user_id = r.userID}
  ELSE {q \in feeds : q.id = r.feed.ID /\ q.user_id = r.feed.UserID}

\* C20: UpdateFeed and UpdateFeedError whose statement the store executes
\* return nil whether or not their (feed.ID, feed.UserID) pair matches a row,
\* and when it matches none (unknown id, or id of another user's feed) they
\* leave every feed row unchanged; RemoveFeed in the same situation reports
\* the zero-rows error.
C20_UpdateWithoutMatchIsSilent ==
  [][ /\ (ret'.op \in {"UpdateFeed", "UpdateFeedError"} /\ ~ret'.dbFails =>
            /\ ret'.err = NilErr
            /\ (MatchedBy(ret') = {} => feeds' = feeds))
      /\ (ret'.op = "RemoveFeed" /\ ~ret'.dbFails /\ MatchedBy(ret') = {} =>
            /\ ret'.err = ErrNoFeedRemoved
            /\ feeds' = feeds) ]_vars

\* UpdateFeedError returned nil for the identifier of another user's feed,
\* whose error counter and message are still empty
C20_Witness ==
  /\ ret.op = "UpdateFeedError"
  /\ ret.err = NilErr
  /\ ret.feed.ParsingErrorCount > 0
  /\ \A r \in feeds : ~(r.id = ret.feed.ID /\ r.user_id = ret.feed.UserID)
  /\ \E r \in feeds :
       /\ r.id = ret.feed.ID
       /\ r.user_id # ret.feed.UserID
       /\ r.parsing_error_count = 0
       /\ r.parsing_error_msg = ""

====
